---- MODULE Spec2Model ----
(***************************************************************************)
(* Model of the two benchmark-comparison report generators                 *)
(*   scripts/compare_benchmarks.py        (custom benchmark JSON schema)   *)
(*   scripts/compare_template_results.py  (hyperfine JSON schema)          *)
(*                                                                         *)
(* Numbers.  The scripts compute with Python floats.  A percentage change  *)
(* is modelled as the exact rational it denotes, [num, den] with den > 0,  *)
(* and every comparison of the code is the same comparison on rationals.   *)
(* Metric values are integers.                                             *)
(*                                                                         *)
(* Strings.  A string is the sequence of its character codes, so that      *)
(* str.split and sorted() are computed as Python computes them.            *)
(***************************************************************************)
EXTENDS Integers, Sequences, FiniteSets, TLC

VARIABLES
    cls,               \* classifier specification: the pair and its classifications
    ext,               \* extraction specification: the command and its result
    script,            \* which script's main runs
    argv,              \* the kind of command line it was given
    files,             \* what the two input paths hold
    pc,                \* position of main / of the report function
    baseline_results,  \* baseline_results / baseline_by_template
    current_results,   \* current_results / current_by_template
    first_current,     \* current["benchmarks"][0], as far as input_size reads it
    seen,              \* the identifiers the two documents offered (history)
    result,            \* what the report function returned, or that it raised
    stdout,            \* what was printed to standard output
    stderr,            \* what was printed to standard error
    exit_code          \* the exit status, NoExit while main runs

runvars == <<script, argv, files, pc, baseline_results, current_results,
             first_current, seen, result, stdout, stderr, exit_code>>

vars == <<cls, ext, script, argv, files, pc, baseline_results, current_results,
          first_current, seen, result, stdout, stderr, exit_code>>

(***************************************************************************)
(* Bounds                                                                  *)
(***************************************************************************)
\* current = baseline + d for d in -MaxDelta .. MaxDelta
MaxDelta == 12

\* a command line is the concatenation of at most MaxPieces pieces
MaxPieces == 5

(***************************************************************************)
(* Rational arithmetic                                                     *)
(***************************************************************************)
Rat(n, d) == [num |-> n, den |-> d]

Abs(x) == IF x < 0 THEN -x ELSE x

\* p < k, p > k for an integer literal k
RatLtInt(p, k) == p.num < k * p.den

RatGtInt(p, k) == p.num > k * p.den

RatAbsLtInt(p, k) == Abs(p.num) < k * p.den

\* p < q on two rationals
RatLt(p, q) == p.num * q.den < q.num * p.den

RatNeg(p) == Rat(-p.num, p.den)

(***************************************************************************)
(* Severity markers (the emoji of the legend)                              *)
(***************************************************************************)
Green == "significant-improvement"

Check == "improvement"

Dash == "neutral"

Yellow == "caution"

Warn == "warning"

Red == "regression"

(***************************************************************************)
(* Outcome of a call: it returned a value, or it raised                    *)
(***************************************************************************)
Returned == "returned"

ZeroDivisionError == "ZeroDivisionError"

\* a call that was not made yet; a variable the specification does not use
Pending == [status |-> "pending"]

Idle == [status |-> "idle"]

\* no entry of either document was read yet: the identifiers read with a
\* result (per document) and those read with an empty result sequence
NoneSeen == [baseline |-> {}, current |-> {}, empty |-> {}]

\* the run variables in a specification that runs no script
RunIdle ==
    /\ script = "none" /\ argv = "none" /\ files = Idle /\ pc = "idle"
    /\ baseline_results = <<>> /\ current_results = <<>>
    /\ first_current = "none" /\ seen = NoneSeen /\ result = Idle
    /\ stdout = <<>> /\ stderr = <<>> /\ exit_code = <<>>

(***************************************************************************)
(* Delta classifier                                                        *)
(***************************************************************************)
\* ((current - baseline) / baseline) * 100 for baseline # 0
change_pct(baseline, current) ==
    IF baseline > 0
    THEN Rat((current - baseline) * 100, baseline)
    ELSE Rat((baseline - current) * 100, -baseline)

\* a plausible slip: the boundary -5 counted as a significant improvement
latency_emoji_inclusive(p) ==
    IF RatAbsLtInt(p, 2) THEN Dash
    ELSE IF p.num <= (-5) * p.den THEN Green
    ELSE IF RatLtInt(p, -2) THEN Check
    ELSE IF RatGtInt(p, 10) THEN Red
    ELSE IF RatGtInt(p, 5) THEN Warn
    ELSE Yellow

\* the if/elif chain of compare_benchmarks.calculate_change
latency_emoji(p) ==
    IF RatAbsLtInt(p, 2) THEN Dash
    ELSE IF RatLtInt(p, -5) THEN Green
    ELSE IF RatLtInt(p, -2) THEN Check
    ELSE IF RatGtInt(p, 10) THEN Red
    ELSE IF RatGtInt(p, 5) THEN Warn
    ELSE Yellow

calculate_change(baseline, current) ==
    IF baseline = 0
    THEN [status |-> Returned, pct |-> Rat(0, 1), emoji |-> Dash]
    ELSE [status |-> Returned, pct |-> change_pct(baseline, current),
          emoji |-> latency_emoji(change_pct(baseline, current))]

\* the if/elif chain of compare_template_results.calculate_change
template_emoji(p) ==
    IF RatAbsLtInt(p, 2) THEN Dash
    ELSE IF RatLtInt(p, -5) THEN Green
    ELSE IF RatLtInt(p, -2) THEN Check
    ELSE IF RatGtInt(p, 10) THEN Red
    ELSE IF RatGtInt(p, 5) THEN Warn
    ELSE Yellow

template_calculate_change(baseline, current) ==
    IF baseline = 0
    THEN [status |-> Returned, pct |-> Rat(0, 1), emoji |-> Dash]
    ELSE [status |-> Returned, pct |-> change_pct(baseline, current),
          emoji |-> template_emoji(change_pct(baseline, current))]

\* the inverted if/elif chain for throughput in compare_benchmarks
throughput_emoji(p) ==
    IF RatAbsLtInt(p, 2) THEN Dash
    ELSE IF RatGtInt(p, 5) THEN Green
    ELSE IF RatGtInt(p, 2) THEN Check
    ELSE IF RatLtInt(p, -10) THEN Red
    ELSE IF RatLtInt(p, -5) THEN Warn
    ELSE IF RatLtInt(p, -2) THEN Yellow
    ELSE Dash

\* the throughput comparison: the division is not guarded
throughput_change(base_throughput, curr_throughput) ==
    IF base_throughput = 0
    THEN [status |-> ZeroDivisionError]
    ELSE [status |-> Returned, pct |-> change_pct(base_throughput, curr_throughput),
          emoji |-> throughput_emoji(change_pct(base_throughput, curr_throughput))]

(***************************************************************************)
(* Strings and extract_template_from_command                               *)
(***************************************************************************)
Space == <<32>>

Tab == <<9>>

\* "--template"
TemplateFlag == <<45, 45, 116, 101, 109, 112, 108, 97, 116, 101>>

\* "--template " : the separator the command is split on
TemplateSeparator == TemplateFlag \o Space

\* "unknown"
Unknown == <<117, 110, 107, 110, 111, 119, 110>>

\* str.find: the least index >= 1 at which sep occurs in s, 0 when none
Find(s, sep) ==
    LET hits == {j \in 1 .. (Len(s) - Len(sep) + 1) :
                    SubSeq(s, j, j + Len(sep) - 1) = sep}
    IN IF hits = {} THEN 0 ELSE CHOOSE j \in hits : \A k \in hits : j <= k

\* str.split(sep): the parts between the non-overlapping occurrences of sep,
\* scanned from the left
RECURSIVE Split(_, _)
Split(s, sep) ==
    LET j == Find(s, sep)
    IN IF j = 0 THEN <<s>>
       ELSE <<SubSeq(s, 1, j - 1)>> \o Split(SubSeq(s, j + Len(sep), Len(s)), sep)

extract_template_from_command(command) ==
    LET parts == Split(command, TemplateSeparator)
    IN IF Len(parts) < 2 THEN Unknown
       ELSE Split(parts[2], Space)[1]

(***************************************************************************)
(* Specification of the extraction: one command line is drawn and          *)
(* extract_template_from_command is applied to it.                         *)
(***************************************************************************)
Pieces == {TemplateFlag, Space, Tab, <<97>>, <<98>>}

RECURSIVE Concat(_)
Concat(ps) == IF ps = <<>> THEN <<>> ELSE Head(ps) \o Concat(Tail(ps))

ExtInit ==
    /\ \E n \in 0 .. MaxPieces : \E ps \in [1 .. n -> Pieces] :
          ext = [status |-> Pending.status, command |-> Concat(ps)]
    /\ cls = Idle
    /\ RunIdle

Extract ==
    /\ ext.status = Pending.status
    /\ ext' = [status |-> Returned, command |-> ext.command,
               template |-> extract_template_from_command(ext.command)]
    /\ UNCHANGED <<cls, runvars>>

ExtNext == Extract

SpecExtract == ExtInit /\ [][ExtNext]_vars

(***************************************************************************)
(* Claims about the extraction, stated for SpecExtract                     *)
(***************************************************************************)
IsBlank(c) == c = 32 \/ c = 9

\* the whitespace-delimited tokens of s, in order
RECURSIVE Tokens(_)
Tokens(s) ==
    IF s = <<>> THEN <<>>
    ELSE IF IsBlank(Head(s)) THEN Tokens(Tail(s))
    ELSE LET ends == {j \in 1 .. Len(s) : j = Len(s) \/ IsBlank(s[j + 1])}
             e == CHOOSE j \in ends : \A k \in ends : j <= k
         IN <<SubSeq(s, 1, e)>> \o Tokens(SubSeq(s, e + 1, Len(s)))

\* the positions of the --template tokens that are followed by a value
FlagPositions(s) ==
    {i \in 1 .. (Len(Tokens(s)) - 1) : Tokens(s)[i] = TemplateFlag}

\* C7 (extraction): the result is the whitespace-delimited value that follows
\* the --template token, and it is "unknown" exactly when the command holds
\* no --template token with a value.
C7_ExtractsFollowingToken ==
    ext.status = Returned =>
        LET toks == Tokens(ext.command)
            at == FlagPositions(ext.command)
        IN /\ (ext.template = Unknown <=> at = {})
           /\ \A i \in at : (\A k \in at : i <= k) => ext.template = toks[i + 1]

\* on a command of the documented form the value after the flag is returned
ExtractDocumentedForm ==
    (/\ ext.status = Returned
     /\ \E pre, val \in {<<97>>, <<98>>} :
           ext.command = pre \o Space \o TemplateFlag \o Space \o val)
    => ext.template = Tokens(ext.command)[3]

(***************************************************************************)
(* Specification of the classifier: one pair (baseline, current) is drawn  *)
(* and each of the three classifications is applied to it.                 *)
(***************************************************************************)
Baselines == {-100, 0, 100, 200}

ClsInit ==
    /\ \E d \in (-MaxDelta) .. MaxDelta : \E b \in Baselines :
          cls = [baseline |-> b, current |-> b + d,
                 latency |-> Pending, template |-> Pending, throughput |-> Pending]
    /\ ext = Idle
    /\ RunIdle

ClassifyLatency ==
    /\ cls.latency = Pending
    /\ cls' = [cls EXCEPT !.latency = calculate_change(cls.baseline, cls.current)]
    /\ UNCHANGED <<ext, runvars>>

ClassifyTemplate ==
    /\ cls.template = Pending
    /\ cls' = [cls EXCEPT !.template = template_calculate_change(cls.baseline, cls.current)]
    /\ UNCHANGED <<ext, runvars>>

ClassifyThroughput ==
    /\ cls.throughput = Pending
    /\ cls' = [cls EXCEPT !.throughput = throughput_change(cls.baseline, cls.current)]
    /\ UNCHANGED <<ext, runvars>>

ClsNext == ClassifyLatency \/ ClassifyTemplate \/ ClassifyThroughput

SpecClassify == ClsInit /\ [][ClsNext]_vars

(***************************************************************************)
(* Input documents of a run.  A JSON object is a record; a key that the    *)
(* document lacks is a field the record lacks.                             *)
(***************************************************************************)
KeyError == "KeyError"

FileNotFoundError == "FileNotFoundError"

JSONDecodeError == "JSONDecodeError"

HasKey(obj, key) == key \in DOMAIN obj

\* metric values of the drawn documents
MetricValues == {0, 100, 110, 125}

\* template names of the custom schema: "b" and "ab"
TemplateNames == {<<98>>, <<97, 98>>}

BenchResult(avg, thr) ==
    [avg_time_per_path |-> avg, latency_stats |-> [p95 |-> avg],
     throughput_paths_per_sec |-> thr, input_size |-> 1000]

\* result objects: complete ones, one with a zero throughput, one without
\* the p95 statistic and one without input_size
BenchResults ==
    {BenchResult(a, 100) : a \in MetricValues}
    \cup {BenchResult(100, 0)}
    \cup {[avg_time_per_path |-> 100, latency_stats |-> [p50 |-> 100],
           throughput_paths_per_sec |-> 100, input_size |-> 1000]}
    \cup {[avg_time_per_path |-> 100, latency_stats |-> [p95 |-> 100],
           throughput_paths_per_sec |-> 100]}

\* the "results" sequences of a benchmark entry
ResultSeqs ==
    {<<>>} \cup {<<r>> : r \in BenchResults}
    \cup {<<BenchResult(125, 100), BenchResult(100, 100)>>}

\* benchmark entries, one of them without "template_name"
BenchEntries ==
    {[template_name |-> n, results |-> rs] : n \in TemplateNames, rs \in ResultSeqs}
    \cup {[results |-> <<>>]}

\* hyperfine commands: "x --template b", "x --template b y" and "x"
Commands ==
    {<<120>> \o Space \o TemplateSeparator \o <<98>>,
     <<120>> \o Space \o TemplateSeparator \o <<98>> \o Space \o <<121>>,
     <<120>>}

\* hyperfine results, some without "mean", one without "command"
HyperfineResults ==
    {[command |-> c, mean |-> m, min |-> m, max |-> m, stddev |-> 1] :
        c \in Commands, m \in MetricValues}
    \cup {[command |-> c, min |-> 100, max |-> 100, stddev |-> 1] : c \in Commands}
    \cup {[mean |-> 100, min |-> 100, max |-> 100, stddev |-> 1]}

(***************************************************************************)
(* Dictionaries and sorting                                                *)
(***************************************************************************)
\* d[key] = value
DictSet(d, key, value) ==
    [k \in (DOMAIN d) \cup {key} |-> IF k = key THEN value ELSE d[k]]

\* Python's < on strings: by code point, a proper prefix first
StrLess(a, b) ==
    \E i \in 1 .. (Len(b)) :
        /\ \A j \in 1 .. (i - 1) : j <= Len(a) /\ a[j] = b[j]
        /\ i - 1 <= Len(a)
        /\ (i > Len(a) \/ a[i] < b[i])

\* a plausible slip: the identifiers in descending order
RECURSIVE sorted_reversed(_)
sorted_reversed(S) ==
    IF S = {} THEN <<>>
    ELSE LET m == CHOOSE x \in S : \A y \in S : x = y \/ StrLess(y, x)
         IN <<m>> \o sorted_reversed(S \ {m})

\* sorted(S) for a set of strings
RECURSIVE sorted(_)
sorted(S) ==
    IF S = {} THEN <<>>
    ELSE LET m == CHOOSE x \in S : \A y \in S : x = y \/ StrLess(x, y)
         IN <<m>> \o sorted(S \ {m})

\* insert pair x into the sorted list s behind every pair whose change is <= x's
InsertAscending(s, x) ==
    LET later == {i \in 1 .. Len(s) : RatLt(x[2], s[i][2])}
        at == IF later = {} THEN Len(s) + 1
              ELSE CHOOSE i \in later : \A k \in later : i <= k
    IN SubSeq(s, 1, at - 1) \o <<x>> \o SubSeq(s, at, Len(s))

\* sorted(pairs, key=lambda x: x[1]): stable, ascending by change
RECURSIVE sorted_by_change(_)
sorted_by_change(pairs) ==
    IF pairs = <<>> THEN <<>>
    ELSE InsertAscending(sorted_by_change(SubSeq(pairs, 1, Len(pairs) - 1)),
                         pairs[Len(pairs)])

\* insert pair x into the sorted list s behind every pair whose change is >= x's
InsertDescending(s, x) ==
    LET later == {i \in 1 .. Len(s) : RatLt(s[i][2], x[2])}
        at == IF later = {} THEN Len(s) + 1
              ELSE CHOOSE i \in later : \A k \in later : i <= k
    IN SubSeq(s, 1, at - 1) \o <<x>> \o SubSeq(s, at, Len(s))

\* sorted(pairs, key=lambda x: x[1], reverse=True): stable, descending
RECURSIVE sorted_by_change_reverse(_)
sorted_by_change_reverse(pairs) ==
    IF pairs = <<>> THEN <<>>
    ELSE InsertDescending(sorted_by_change_reverse(SubSeq(pairs, 1, Len(pairs) - 1)),
                          pairs[Len(pairs)])

(***************************************************************************)
(* The summary groups, shared by both report functions                     *)
(***************************************************************************)
\* a plausible slip: a change of exactly 10 percent counted as a regression
summary_group_inclusive(change) ==
    IF change.num >= 10 * change.den THEN "regressions"
    ELSE IF RatLtInt(change, -5) THEN "improvements"
    ELSE "neutral"

\* the list a compared item is appended to
summary_group(change) ==
    IF RatGtInt(change, 10) THEN "regressions"
    ELSE IF RatLtInt(change, -5) THEN "improvements"
    ELSE "neutral"

\* the (template, change) pairs of the table rows that belong to a group
GroupPairs(table, group) ==
    LET hits == SelectSeq(table, LAMBDA row : summary_group(row.change.pct) = group)
    IN [i \in 1 .. Len(hits) |-> <<hits[i].template, hits[i].change.pct>>]

\* the report: its table, the counts of its summary, its two highlight lists
Report(table, total) ==
    [status |-> Returned, kind |-> "report", table |-> table, total |-> total,
     improvements |-> Len(GroupPairs(table, "improvements")),
     regressions |-> Len(GroupPairs(table, "regressions")),
     neutral |-> Len(GroupPairs(table, "neutral")),
     regression_list |-> sorted_by_change_reverse(GroupPairs(table, "regressions")),
     improvement_list |-> sorted_by_change(GroupPairs(table, "improvements"))]

(***************************************************************************)
(* compare_benchmarks.compare_benchmarks, from the lookups on               *)
(***************************************************************************)
\* a plausible slip: only the templates of both sides are counted
all_templates_common(baseline, current) ==
    sorted((DOMAIN baseline) \cap (DOMAIN current))

\* all_templates: the sorted union of the two lookups' keys
all_templates(baseline, current) ==
    sorted((DOMAIN baseline) \cup (DOMAIN current))

\* what the body of the table loop raises for one template, "none" if nothing
benchmark_row_error(base, curr) ==
    IF \/ ~HasKey(base, "avg_time_per_path") \/ ~HasKey(curr, "avg_time_per_path")
       \/ ~HasKey(base.latency_stats, "p95") \/ ~HasKey(curr.latency_stats, "p95")
       \/ ~HasKey(base, "throughput_paths_per_sec")
       \/ ~HasKey(curr, "throughput_paths_per_sec")
    THEN KeyError
    ELSE throughput_change(base.throughput_paths_per_sec,
                           curr.throughput_paths_per_sec).status

\* the table row of one template
benchmark_row(template_name, base, curr) ==
    [template |-> template_name,
     change |-> calculate_change(base.avg_time_per_path, curr.avg_time_per_path),
     p95 |-> calculate_change(base.latency_stats.p95, curr.latency_stats.p95),
     throughput |-> throughput_change(base.throughput_paths_per_sec,
                                      curr.throughput_paths_per_sec)]

compare_benchmarks(baseline, current, first) ==
    LET names == all_templates(baseline, current)
        both == SelectSeq(names, LAMBDA n : n \in DOMAIN baseline /\ n \in DOMAIN current)
        errors == [i \in 1 .. Len(both) |->
                      benchmark_row_error(baseline[both[i]], current[both[i]])]
        raising == {i \in 1 .. Len(both) : errors[i] # Returned}
    IN IF first = "unsized" THEN [status |-> KeyError]
       ELSE IF raising # {}
       THEN [status |-> errors[CHOOSE i \in raising : \A k \in raising : i <= k]]
       ELSE Report([i \in 1 .. Len(both) |->
                       benchmark_row(both[i], baseline[both[i]], current[both[i]])],
                   Len(names))

(***************************************************************************)
(* compare_template_results.generate_comparison_report, from the lookups on *)
(***************************************************************************)
common_templates(baseline, current) ==
    sorted((DOMAIN baseline) \cap (DOMAIN current))

\* what the body of the table loop raises for one template
template_row_error(baseline, current) ==
    IF \/ ~HasKey(baseline, "mean") \/ ~HasKey(current, "mean")
       \/ ~HasKey(current, "min") \/ ~HasKey(current, "max")
       \/ ~HasKey(current, "stddev")
    THEN KeyError
    ELSE Returned

\* the table row of one template; cv > 10 with cv = stddev / mean * 100
template_row(template, baseline, current) ==
    [template |-> template,
     change |-> template_calculate_change(baseline.mean, current.mean),
     high_variance |-> current.mean > 0 /\ current.stddev * 100 > 10 * current.mean]

generate_comparison_report(baseline, current) ==
    LET common == common_templates(baseline, current)
        errors == [i \in 1 .. Len(common) |->
                      template_row_error(baseline[common[i]], current[common[i]])]
        raising == {i \in 1 .. Len(common) : errors[i] # Returned}
    IN IF common = <<>> THEN [status |-> Returned, kind |-> "error_text"]
       ELSE IF raising # {}
       THEN [status |-> errors[CHOOSE i \in raising : \A k \in raising : i <= k]]
       ELSE Report([i \in 1 .. Len(common) |->
                       template_row(common[i], baseline[common[i]], current[common[i]])],
                   Len(common))

(***************************************************************************)
(* The two main functions                                                  *)
(***************************************************************************)
CB == "compare_benchmarks"

CTR == "compare_template_results"

\* a plausible slip: the handler of a failed comparison forgets sys.exit(1)
main_except_no_exit(which, exc) ==
    IF which = CB
    THEN [stdout |-> <<"Error comparing benchmarks">>, stderr |-> <<"traceback">>,
          exit_code |-> <<0>>]
    ELSE [stdout |-> <<>>, stderr |-> <<"Error">>, exit_code |-> <<0>>]

\* the except clauses of main: what is printed where, and the exit status
main_except(which, exc) ==
    IF which = CB
    THEN [stdout |-> <<"Error comparing benchmarks">>, stderr |-> <<"traceback">>,
          exit_code |-> <<1>>]
    ELSE IF exc = FileNotFoundError
    THEN [stdout |-> <<>>, stderr |-> <<"Error: File not found">>, exit_code |-> <<1>>]
    ELSE IF exc = JSONDecodeError
    THEN [stdout |-> <<>>, stderr |-> <<"Error: Invalid JSON">>, exit_code |-> <<1>>]
    ELSE [stdout |-> <<>>, stderr |-> <<"Error", "traceback">>, exit_code |-> <<1>>]

\* main ends: the comparison raised exc and the except clause handled it
Raise(exc) ==
    /\ result' = [status |-> exc]
    /\ stdout' = main_except(script, exc).stdout
    /\ stderr' = main_except(script, exc).stderr
    /\ exit_code' = main_except(script, exc).exit_code
    /\ pc' = "exit"

\* main ends before the comparison was started
Exit(out, err, code) ==
    /\ stdout' = out /\ stderr' = err /\ exit_code' = <<code>> /\ pc' = "exit"
    /\ UNCHANGED result

FileKinds == {"missing", "invalid_json", "no_key", "valid"}

ArgvKinds == {"paths", "help", "invalid"}

RunInit ==
    /\ script \in {CB, CTR}
    /\ argv \in ArgvKinds
    /\ files \in [baseline : FileKinds, current : FileKinds]
    /\ pc = "main"
    /\ baseline_results = <<>> /\ current_results = <<>>
    /\ first_current = "none" /\ seen = NoneSeen
    /\ result = Pending
    /\ stdout = <<>> /\ stderr = <<>> /\ exit_code = <<>>
    /\ cls = Idle /\ ext = Idle

\* compare_benchmarks.main up to the try: the argument count, the two paths
MainBenchmarks ==
    /\ pc = "main" /\ script = CB
    /\ IF argv # "paths" THEN Exit(<<"Usage">>, <<>>, 1)
       ELSE IF files.baseline = "missing"
       THEN Exit(<<"Error: Baseline file not found">>, <<>>, 1)
       ELSE IF files.current = "missing"
       THEN Exit(<<"Error: Current file not found">>, <<>>, 1)
       ELSE pc' = "load" /\ UNCHANGED <<result, stdout, stderr, exit_code>>
    /\ UNCHANGED <<cls, ext, script, argv, files, baseline_results, current_results,
                   first_current, seen>>

\* compare_template_results.main: parse_args (argparse prints the help and
\* exits 0 on -h, prints the usage and exits 2 on a bad command line)
MainTemplate ==
    /\ pc = "main" /\ script = CTR
    /\ IF argv = "help" THEN Exit(<<"help">>, <<>>, 0)
       ELSE IF argv = "invalid" THEN Exit(<<>>, <<"usage">>, 2)
       ELSE pc' = "load" /\ UNCHANGED <<result, stdout, stderr, exit_code>>
    /\ UNCHANGED <<cls, ext, script, argv, files, baseline_results, current_results,
                   first_current, seen>>

\* the two json.load calls, the baseline first
LoadFiles ==
    /\ pc = "load"
    /\ IF files.baseline = "missing" THEN Raise(FileNotFoundError)
       ELSE IF files.baseline = "invalid_json" THEN Raise(JSONDecodeError)
       ELSE IF files.current = "missing" THEN Raise(FileNotFoundError)
       ELSE IF files.current = "invalid_json" THEN Raise(JSONDecodeError)
       ELSE pc' = "baseline_loop" /\ UNCHANGED <<result, stdout, stderr, exit_code>>
    /\ UNCHANGED <<cls, ext, script, argv, files, baseline_results, current_results,
                   first_current, seen>>

\* one iteration of a lookup loop of compare_benchmarks: the new lookup
benchmark_lookup(lookup, bench) ==
    IF bench.results # <<>>
    THEN DictSet(lookup, bench.template_name, bench.results[Len(bench.results)])
    ELSE lookup

\* one iteration of a lookup loop of generate_comparison_report
template_lookup(lookup, res) ==
    DictSet(lookup, extract_template_from_command(res.command), res)

\* the document has no "benchmarks" / "results" sequence to loop over
LoopKeyError ==
    /\ \/ pc = "baseline_loop" /\ files.baseline = "no_key"
       \/ pc = "current_loop" /\ files.current = "no_key"
    /\ Raise(KeyError)
    /\ UNCHANGED <<cls, ext, script, argv, files, baseline_results, current_results,
                   first_current, seen>>

BaselineBenchmark ==
    /\ pc = "baseline_loop" /\ script = CB /\ files.baseline = "valid"
    /\ \E bench \in BenchEntries :
          IF ~HasKey(bench, "template_name")
          THEN Raise(KeyError) /\ UNCHANGED <<baseline_results, seen>>
          ELSE /\ baseline_results' = benchmark_lookup(baseline_results, bench)
               /\ seen' = IF bench.results = <<>>
                          THEN [seen EXCEPT !.empty = @ \cup {bench.template_name}]
                          ELSE [seen EXCEPT !.baseline = @ \cup {bench.template_name}]
               /\ UNCHANGED <<pc, result, stdout, stderr, exit_code>>
    /\ UNCHANGED <<cls, ext, script, argv, files, current_results, first_current>>

BaselineResult ==
    /\ pc = "baseline_loop" /\ script = CTR /\ files.baseline = "valid"
    /\ \E res \in HyperfineResults :
          IF ~HasKey(res, "command")
          THEN Raise(KeyError) /\ UNCHANGED <<baseline_results, seen>>
          ELSE /\ baseline_results' = template_lookup(baseline_results, res)
               /\ seen' = [seen EXCEPT !.baseline =
                              @ \cup {extract_template_from_command(res.command)}]
               /\ UNCHANGED <<pc, result, stdout, stderr, exit_code>>
    /\ UNCHANGED <<cls, ext, script, argv, files, current_results, first_current>>

BaselineDone ==
    /\ pc = "baseline_loop" /\ files.baseline = "valid"
    /\ pc' = "current_loop"
    /\ UNCHANGED <<cls, ext, script, argv, files, baseline_results, current_results,
                   first_current, seen, result, stdout, stderr, exit_code>>

\* what the input_size lookup will find in current["benchmarks"][0]
first_benchmark(first, bench) ==
    IF first # "none" THEN first
    ELSE IF bench.results = <<>> THEN "empty"
    ELSE IF HasKey(bench.results[Len(bench.results)], "input_size") THEN "sized"
    ELSE "unsized"

CurrentBenchmark ==
    /\ pc = "current_loop" /\ script = CB /\ files.current = "valid"
    /\ \E bench \in BenchEntries :
          IF ~HasKey(bench, "template_name")
          THEN Raise(KeyError) /\ UNCHANGED <<current_results, seen, first_current>>
          ELSE /\ current_results' = benchmark_lookup(current_results, bench)
               /\ first_current' = first_benchmark(first_current, bench)
               /\ seen' = IF bench.results = <<>>
                          THEN [seen EXCEPT !.empty = @ \cup {bench.template_name}]
                          ELSE [seen EXCEPT !.current = @ \cup {bench.template_name}]
               /\ UNCHANGED <<pc, result, stdout, stderr, exit_code>>
    /\ UNCHANGED <<cls, ext, script, argv, files, baseline_results>>

CurrentResult ==
    /\ pc = "current_loop" /\ script = CTR /\ files.current = "valid"
    /\ \E res \in HyperfineResults :
          IF ~HasKey(res, "command")
          THEN Raise(KeyError) /\ UNCHANGED <<current_results, seen>>
          ELSE /\ current_results' = template_lookup(current_results, res)
               /\ seen' = [seen EXCEPT !.current =
                              @ \cup {extract_template_from_command(res.command)}]
               /\ UNCHANGED <<pc, result, stdout, stderr, exit_code>>
    /\ UNCHANGED <<cls, ext, script, argv, files, baseline_results, first_current>>

\* the rest of main once the report function returned res or raised
report_outcome(which, res) ==
    IF res.status = Returned
    THEN [result |-> res, pc |-> "print", stdout |-> <<>>, stderr |-> <<>>,
          exit_code |-> <<>>]
    ELSE [result |-> res, pc |-> "exit", stdout |-> main_except(which, res.status).stdout,
          stderr |-> main_except(which, res.status).stderr,
          exit_code |-> main_except(which, res.status).exit_code]

\* the current loop ends and the report function runs to its return or raise
Compare ==
    /\ pc = "current_loop" /\ files.current = "valid"
    /\ LET res == IF script = CB
                  THEN compare_benchmarks(baseline_results, current_results, first_current)
                  ELSE generate_comparison_report(baseline_results, current_results)
           out == report_outcome(script, res)
       IN /\ result' = out.result /\ pc' = out.pc /\ stdout' = out.stdout
          /\ stderr' = out.stderr /\ exit_code' = out.exit_code
    /\ UNCHANGED <<cls, ext, script, argv, files, baseline_results, current_results,
                   first_current, seen>>

\* print(report), and main returns
PrintReport ==
    /\ pc = "print"
    /\ stdout' = <<result.kind>>
    /\ exit_code' = <<0>>
    /\ pc' = "exit"
    /\ UNCHANGED <<cls, ext, script, argv, files, baseline_results, current_results,
                   first_current, seen, result, stderr>>

Next ==
    \/ MainBenchmarks
    \/ MainTemplate
    \/ LoadFiles
    \/ LoopKeyError
    \/ BaselineBenchmark
    \/ BaselineResult
    \/ BaselineDone
    \/ CurrentBenchmark
    \/ CurrentResult
    \/ Compare
    \/ PrintReport

Spec == RunInit /\ [][Next]_vars

(***************************************************************************)
(* Claims about the classifier, stated for SpecClassify                    *)
(***************************************************************************)
\* the two calculate_change results of the state
ClsLatencyResults == {r \in {cls.latency, cls.template} : r.status = Returned}

\* (current - baseline) * 100 and baseline, with the sign moved to the numerator
ClsNum == IF cls.baseline > 0 THEN (cls.current - cls.baseline) * 100
          ELSE (cls.baseline - cls.current) * 100

ClsDen == Abs(cls.baseline)

C2_CautionOnlyWhenSlower ==
    \A r \in ClsLatencyResults : r.emoji = Yellow => RatGtInt(r.pct, 0)

\* C3: the throughput severity of a change p is the latency severity of -p.
C3_ThroughputMirrorsLatency ==
    cls.throughput.status = Returned =>
        cls.throughput.emoji = latency_emoji(RatNeg(cls.throughput.pct))

\* C4: with a baseline of 0 every classification (both calculate_change
\* functions and the throughput comparison) yields pct_change 0 with the
\* undefined marker and nothing raises.
C4_ZeroBaselineIsDefined ==
    cls.baseline = 0 =>
        \A r \in {cls.latency, cls.template, cls.throughput} :
            r # Pending =>
                /\ r.status = Returned
                /\ r.pct = Rat(0, 1)
                /\ r.emoji = Dash

(***************************************************************************)
(* Claims about a run, stated for Spec                                     *)
(***************************************************************************)
\* the report function returned a report (not the error text, not a raise)
ReportReturned == result.status = Returned /\ result.kind = "report"

\* the item identifiers both documents offered with a result
CommonItems == seen.baseline \cap seen.current

\* the identifiers of the table rows, in table order
RowNames == [i \in 1 .. Len(result.table) |-> result.table[i].template]

\* the primary metric of an item in a lookup
Primary(lookup, n) ==
    IF script = CB THEN lookup[n].avg_time_per_path ELSE lookup[n].mean

\* primary-metric pct_change > 10, < -5 (0 and no change for a baseline of 0)
PrimaryAbove10(n) ==
    LET b == Primary(baseline_results, n)
        c == Primary(current_results, n)
    IN b > 0 /\ (c - b) * 100 > 10 * b

PrimaryBelowMinus5(n) ==
    LET b == Primary(baseline_results, n)
        c == Primary(current_results, n)
    IN b > 0 /\ (c - b) * 100 < (-5) * b

\* C5: the table rows are exactly the identifiers offered with a result by
\* both documents, in ascending lexicographic order, one row each; an item
\* of one side only, or met only with an empty result sequence on a side,
\* has no row.
C5_RowsAreSortedCommonItems ==
    ReportReturned =>
        /\ \A i, j \in 1 .. Len(RowNames) : i < j => StrLess(RowNames[i], RowNames[j])
        /\ {RowNames[i] : i \in 1 .. Len(RowNames)} = CommonItems
        /\ \A n \in seen.empty \ CommonItems :
              \A i \in 1 .. Len(RowNames) : RowNames[i] # n

\* a benchmark report with two rows, "ab" before "b"
C5_Witness ==
    /\ ReportReturned /\ script = CB
    /\ RowNames = << <<97, 98>>, <<98>> >>

\* a report whose table lacks an item met with an empty result sequence
C5_EmptyDropped ==
    /\ ReportReturned /\ script = CB
    /\ Len(RowNames) = 1
    /\ \E n \in seen.empty : n \in seen.baseline /\ n \notin seen.current

\* C6: without a common item identifier a report function returns the
\* explicit error text, never a report with an empty table.
C6_NoCommonItemsIsAnError ==
    (result.status = Returned /\ CommonItems = {}) => result.kind = "error_text"

\* C8: the regression list holds exactly the compared items whose primary
\* pct_change is > 10, by pct_change descending; the improvement list exactly
\* those with pct_change < -5, ascending; every other compared item is
\* counted neutral and no item is in two groups.
C8_HighlightLists ==
    ReportReturned =>
        LET regs == result.regression_list
            imps == result.improvement_list
            regnames == {regs[i][1] : i \in 1 .. Len(regs)}
            impnames == {imps[i][1] : i \in 1 .. Len(imps)}
        IN /\ regnames = {n \in CommonItems : PrimaryAbove10(n)}
           /\ impnames = {n \in CommonItems : PrimaryBelowMinus5(n)}
           /\ Cardinality(regnames) = Len(regs) /\ result.regressions = Len(regs)
           /\ Cardinality(impnames) = Len(imps) /\ result.improvements = Len(imps)
           /\ regnames \cap impnames = {}
           /\ result.neutral = Cardinality(CommonItems \ (regnames \cup impnames))
           /\ \A i, j \in 1 .. Len(regs) : i < j => ~RatLt(regs[i][2], regs[j][2])
           /\ \A i, j \in 1 .. Len(imps) : i < j => ~RatLt(imps[j][2], imps[i][2])
           /\ \A i \in 1 .. Len(regs) : \E k \in 1 .. Len(result.table) :
                 /\ result.table[k].template = regs[i][1]
                 /\ result.table[k].change.pct = regs[i][2]
           /\ \A i \in 1 .. Len(imps) : \E k \in 1 .. Len(result.table) :
                 /\ result.table[k].template = imps[i][1]
                 /\ result.table[k].change.pct = imps[i][2]

\* two regressions listed against the order of their names, the worse first
C8_Witness ==
    /\ ReportReturned
    /\ Len(result.regression_list) = 2
    /\ result.regression_list[1][1] = <<98>>
    /\ RatLt(result.regression_list[2][2], result.regression_list[1][2])

\* main ended on a missing file, on invalid JSON or on an absent field
FailedInput ==
    /\ pc = "exit" /\ argv = "paths"
    /\ \/ files.baseline \in {"missing", "invalid_json"}
       \/ files.current \in {"missing", "invalid_json"}
       \/ result.status = KeyError

\* the error half of C9: a failed input ends with a message, without a
\* report and with a non-zero exit status
FailedInputIsReported ==
    FailedInput =>
        /\ exit_code # <<>> /\ exit_code # <<0>>
        /\ (stdout # <<>> \/ stderr # <<>>)
        /\ \A i \in 1 .. Len(stdout) : stdout[i] \notin {"report", "error_text"}

\* C9 as stated: exit status 0 only after the comparison completed and its
\* result was printed; a failed input is reported with a non-zero status.
C9_ZeroOnlyAfterReport ==
    /\ exit_code = <<0>> => (result.status = Returned /\ stdout = <<result.kind>>)
    /\ FailedInputIsReported

\* C9 amended: as stated, except that compare_template_results also ends
\* with status 0 when asked for its help text, without comparing.
C9_ZeroOnlyAfterReportOrHelp ==
    /\ exit_code = <<0>> =>
          \/ result.status = Returned /\ stdout = <<result.kind>>
          \/ script = CTR /\ argv = "help" /\ stdout = <<"help">> /\ result = Pending
    /\ FailedInputIsReported

\* a run of compare_benchmarks that failed on an absent field
C9_Witness ==
    /\ FailedInput /\ script = CB /\ result.status = KeyError
    /\ files.baseline = "valid" /\ files.current = "valid"
    /\ exit_code = <<1>>

\* C10: the three summary counts sum to the number of table rows, which is
\* the number of common items; the total is that number in
\* generate_comparison_report and the size of the union in compare_benchmarks.
C10_SummaryCounts ==
    ReportReturned =>
        /\ result.improvements + result.regressions + result.neutral = Len(result.table)
        /\ Len(result.table) = Cardinality(CommonItems)
        /\ script = CTR => result.total = Len(result.table)
        /\ script = CB => result.total = Cardinality(seen.baseline \cup seen.current)

\* a benchmark report whose total exceeds its number of rows
C10_Witness ==
    /\ ReportReturned /\ script = CB
    /\ Len(result.table) = 1 /\ result.total = 2
    /\ result.improvements + result.regressions + result.neutral = 1

====
